---- MODULE Spec2Model ----
(***************************************************************************)
(* Model of the RTMP client session of protocol/rtmp/src/session/          *)
(* client_session.rs: the run loop, the handshake loop, the message        *)
(* dispatcher (process_messages, process_amf0_command_message) and the     *)
(* reply handlers.                                                         *)
(*                                                                         *)
(* A number on the wire is an f64.  It is represented here by twice its    *)
(* value (an integer count of halves), so that 3 stands for 1.5 and 514    *)
(* for 257.0; the narrowing `as u8` is modelled on that representation.    *)
(***************************************************************************)
EXTENDS Integers, Sequences, FiniteSets, TLC

\* ------------------------------------------------------------------ bounds
\* number of connection reads the peer answers with data
MaxReads == 4
\* number of complete messages one connection read can deliver
MaxPerRead == 2

\* ------------------------------------------------------- program constants
TRANSACTION_ID_CONNECT == 1
TRANSACTION_ID_CREATE_STREAM == 2
\* the value on_set_peer_bandwidth passes to send_window_acknowledgement_size
WINDOW_ACK_SIZE == 250000
\* max chunk size of a fresh ChunkUnpacketizer
DefaultMaxChunkSize == 128

\* ------------------------------------------------------------- AMF0 values
Amf0Number(h) == [t |-> "Number", s |-> "", n |-> h]
Amf0String(str) == [t |-> "UTF8String", s |-> str, n |-> 0]
Amf0Object == [t |-> "Object", s |-> "", n |-> 0]
Amf0Null == [t |-> "Null", s |-> "", n |-> 0]

\* f64 -> u8 with `as`: truncation toward zero, saturating at 0 and 255
AsU8(h) == IF h <= 0 THEN 0 ELSE IF h \div 2 > 255 THEN 255 ELSE h \div 2

\* --------------------------------------------------------- decoded messages
Amf0Command(name, tid, obj, others) ==
    [kind |-> "Amf0Command", command_name |-> name, transaction_id |-> tid,
     command_object |-> obj, others |-> others, n |-> 0]

Control(kind, n) ==
    [kind |-> kind, command_name |-> Amf0Null, transaction_id |-> Amf0Null,
     command_object |-> Amf0Null, others |-> <<>>, n |-> n]

NoMsg == Control("None", 0)

\* transaction ids put on the wire by the peer, in halves:
\* 0.0, 1.0, 1.5, 2.0, 7.0, 257.0
WireIds == {0, 2, 3, 4, 14, 514}

ReplyNames == {"_result", "_reslut"}

Replies ==
    {Amf0Command(Amf0String(nm), Amf0Number(h), Amf0Null, <<>>) :
        nm \in ReplyNames, h \in WireIds}

OtherCommands ==
    { Amf0Command(Amf0String("_error"), Amf0Number(2), Amf0Null, <<>>),
      Amf0Command(Amf0String("_error"), Amf0Number(14), Amf0Null, <<>>),
      Amf0Command(Amf0String("onStatus"), Amf0Number(0), Amf0Null, <<>>),
      Amf0Command(Amf0String("onStatus"), Amf0Number(0), Amf0Null, <<Amf0Object>>),
      Amf0Command(Amf0String("onStatus"), Amf0Number(0), Amf0Null, <<Amf0Number(2)>>),
      Amf0Command(Amf0String("onBWDone"), Amf0Number(2), Amf0Object, <<>>),
      Amf0Command(Amf0Null, Amf0String("x"), Amf0Number(4), <<Amf0Object>>) }

ControlMessages ==
    { Control("SetPeerBandwidth", 0), Control("SetPeerBandwidth", 2500000),
      Control("SetChunkSize", 128), Control("SetChunkSize", 4096),
      Control("AudioData", 0), Control("VideoData", 0),
      Control("Acknowledgement", 0) }

\* what the reassembler can hold: decodable messages, a chunk that
\* read_chunk rejects, and a chunk-message that MessageParser::parse rejects
Inbound == Replies \cup OtherCommands \cup ControlMessages
             \cup {Control("BadChunk", 0), Control("BadMessage", 0)}

\* ------------------------------------------------------------------- state
VARIABLES
    state,            \* ClientSession.state
    client_type,      \* ClientSession.client_type
    stream_name,      \* ClientSession.stream_name
    max_chunk_size,   \* unpacketizer's accepted maximum chunk size
    handshaker,       \* handshaker.state, as the session sees it
    hs_fed,           \* the handshaker has been fed peer bytes
    buffer,           \* number of complete messages held by the unpacketizer
    pc,               \* position of run()
    msg,              \* message taken by read_chunk/parse, kept after dispatch
    ret,              \* what run() has returned, or "Running"
    outbound,         \* frames handed to the connection for writing, in order
    reads,            \* connection reads that returned data
    io_guard,         \* the guard of the connection mutex the session holds
    script            \* how far the peer has followed the publish scenario

vars == <<state, client_type, stream_name, max_chunk_size, handshaker, hs_fed,
          buffer, pc, msg, ret, outbound, reads, io_guard, script>>

States == {"Handshake", "Connect", "CreateStream", "Play", "PublishingContent"}
ClientTypes == {"Play", "Publish"}
StreamNames == {"live1", "live2"}

\* a frame handed to the connection: its kind, its number (a transaction id
\* in halves, or a window size), the app or stream name, the stream type
Frame(kind, n, name, type) == [kind |-> kind, n |-> n, name |-> name, type |-> type]

\* ClientSession::new
Init ==
    /\ state = "Handshake"
    /\ client_type \in ClientTypes
    /\ stream_name \in StreamNames
    /\ max_chunk_size = DefaultMaxChunkSize
    /\ handshaker = "InProgress"
    /\ hs_fed = FALSE
    /\ buffer = 0
    /\ pc = "run"
    /\ msg = NoMsg
    /\ ret = "Running"
    /\ outbound = <<>>
    /\ reads = 0
    /\ io_guard = "none"
    /\ script = "start"

\* ------------------------------------------------- outbound frame builders
\* NetConnection::connect wrapped by send_connect: the app name is "app"
send_connect(transaction_id) == Frame("connect", transaction_id, "app", "")

send_create_stream(transaction_id) == Frame("createStream", transaction_id, "", "")

send_play(transaction_id, name) == Frame("play", transaction_id, name, "")

send_publish(transaction_id, name, stream_type) ==
    Frame("publish", transaction_id, name, stream_type)

send_window_acknowledgement_size(window_size) ==
    Frame("WindowAcknowledgementSize", window_size, "", "")

\* `x as f64` of a u8 constant, in halves
AsF64(x) == 2 * x

\* ----------------------------------------------------------- reply handlers
on_result_connect(st) == "CreateStream"

\* mutant: the two arms of the match on client_type exchanged
on_result_create_stream_swapped(ct) ==
    IF ct = "Play" THEN "PublishingContent" ELSE "Play"

on_result_create_stream(ct) ==
    IF ct = "Play" THEN "Play" ELSE "PublishingContent"

\* mutant: the dispatcher compares with the name "_result"
ResultCommandName_result == "_result"

\* the command name the dispatcher compares with for a reply
ResultCommandName == "_reslut"

cmd_name(m) ==
    IF m.command_name.t = "UTF8String" THEN m.command_name.s ELSE ""

narrowed_transaction_id(m) ==
    IF m.transaction_id.t = "Number" THEN AsU8(m.transaction_id.n) ELSE 0

\* Vec::remove(0) followed by the match on the removed value
on_status_arm(others) ==
    IF Len(others) = 0 THEN "Panic"
    ELSE IF Head(others).t = "Object" THEN "Ok"
    ELSE "Amf0ValueCountNotCorrect"

\* mutant: on_error reports the peer's error as a session error
on_error_fatal == "Amf0ValueCountNotCorrect"

\* what on_error returns
on_error == "Ok"

\* mutant: the arm for any other command name returns an error
process_amf0_command_message_strict(m, st, ct) ==
    IF cmd_name(m) = ResultCommandName THEN
        IF narrowed_transaction_id(m) = TRANSACTION_ID_CONNECT
            THEN [state |-> on_result_connect(st), ret |-> "Ok"]
        ELSE IF narrowed_transaction_id(m) = TRANSACTION_ID_CREATE_STREAM
            THEN [state |-> on_result_create_stream(ct), ret |-> "Ok"]
        ELSE [state |-> st, ret |-> "Ok"]
    ELSE IF cmd_name(m) = "_error" THEN [state |-> st, ret |-> on_error]
    ELSE IF cmd_name(m) = "onStatus"
        THEN [state |-> st, ret |-> on_status_arm(m.others)]
    ELSE [state |-> st, ret |-> "Amf0ValueCountNotCorrect"]

\* mutant: the "onStatus" arm is the catch-all arm
process_amf0_command_message_catchall(m, st, ct) ==
    IF cmd_name(m) = ResultCommandName THEN
        IF narrowed_transaction_id(m) = TRANSACTION_ID_CONNECT
            THEN [state |-> on_result_connect(st), ret |-> "Ok"]
        ELSE IF narrowed_transaction_id(m) = TRANSACTION_ID_CREATE_STREAM
            THEN [state |-> on_result_create_stream(ct), ret |-> "Ok"]
        ELSE [state |-> st, ret |-> "Ok"]
    ELSE IF cmd_name(m) = "_error" THEN [state |-> st, ret |-> on_error]
    ELSE [state |-> st, ret |-> on_status_arm(m.others)]

\* the session state and the returned value after dispatching command m
process_amf0_command_message(m, st, ct) ==
    IF cmd_name(m) = ResultCommandName THEN
        IF narrowed_transaction_id(m) = TRANSACTION_ID_CONNECT
            THEN [state |-> on_result_connect(st), ret |-> "Ok"]
        ELSE IF narrowed_transaction_id(m) = TRANSACTION_ID_CREATE_STREAM
            THEN [state |-> on_result_create_stream(ct), ret |-> "Ok"]
        ELSE [state |-> st, ret |-> "Ok"]
    ELSE IF cmd_name(m) = "_error" THEN [state |-> st, ret |-> on_error]
    ELSE IF cmd_name(m) = "onStatus"
        THEN [state |-> st, ret |-> on_status_arm(m.others)]
    ELSE [state |-> st, ret |-> "Ok"]

\* mutant: the chunk size narrowed to one byte, as the transaction id is
on_set_chunk_size_u8(chunk_size) == chunk_size % 256

\* the chunk size update_max_chunk_size receives: `chunk_size as usize`
on_set_chunk_size(chunk_size) == chunk_size

\* mutant: the received window size is echoed back
on_set_peer_bandwidth_echo(window_size) ==
    send_window_acknowledgement_size(window_size)

\* the window size on_set_peer_bandwidth acknowledges
on_set_peer_bandwidth(window_size) ==
    send_window_acknowledgement_size(WINDOW_ACK_SIZE)

\* ------------------------------------------------------ the scripted peer
IsCommand(m, name, h) ==
    /\ m.kind = "Amf0Command"
    /\ m.command_name = Amf0String(name)
    /\ m.transaction_id = Amf0Number(h)

\* The publish scenario: the peer completes the handshake, then its first
\* message is "_result" with the connect id, then its next message is
\* "_result" with the create-stream id.  Any other message leaves the scenario.
ScriptStep(sc, m) ==
    IF sc = "handshaken" /\ IsCommand(m, "_result", AsF64(TRANSACTION_ID_CONNECT))
        THEN "connect_replied"
    ELSE IF sc = "connect_replied"
            /\ IsCommand(m, "_result", AsF64(TRANSACTION_ID_CREATE_STREAM))
        THEN "create_stream_replied"
    ELSE "off"

\* ------------------------------------------------- the connection mutex
\* io.lock().await completes only when no guard of the mutex is alive; the
\* session is the only task that locks, so a guard it still holds blocks it
\* for ever
Acquire == io_guard = "none"

\* mutant: the guard of the read is bound to a variable that lives to the end
\* of the loop body
guard_after_read_kept == "read"

\* `self.io.lock().await.read().await?`: the guard is a temporary of the
\* statement and is dropped at its end
guard_after_read == "none"

\* -------------------------------------------------------------- run(): `?`
\* mutant: the error is noted and the loop goes on to its next iteration
Raise_and_continue(e) == /\ ret' = e
                         /\ pc' = "run"

\* an Err propagated by `?`, or a panic, ends run() where it stands
Raise(e) == /\ ret' = e
            /\ pc' = "done"

\* a write handed to the connection: recorded, then it succeeds or fails
Write(frame, next) ==
    /\ Acquire
    /\ io_guard' = "none"
    /\ outbound' = Append(outbound, frame)
    /\ \/ /\ pc' = next
          /\ ret' = ret
       \/ Raise("IoError")

\* ------------------------------------------------------------------ actions
\* run(), state Handshake: enter handshake()
run_Handshake ==
    /\ pc = "run" /\ state = "Handshake"
    /\ pc' = "hs_step"
    /\ UNCHANGED <<state, client_type, stream_name, max_chunk_size, handshaker,
                   hs_fed, buffer, msg, ret, outbound, reads, io_guard,
                   script>>

\* mutant: handshake() leaves its loop after the first step, finished or not
handshake_step_once ==
    /\ pc = "hs_step"
    /\ Acquire
    /\ \/ /\ Raise("HandshakeError")
          /\ UNCHANGED <<state, handshaker, script>>
       \/ /\ handshaker' = "InProgress"
          /\ state' = "Connect"
          /\ pc' = "read"
          /\ UNCHANGED <<ret, script>>
       \/ /\ hs_fed
          /\ handshaker' = "Finish"
          /\ state' = "Connect"
          /\ pc' = "read"
          /\ script' = "handshaken"
          /\ UNCHANGED ret
    /\ UNCHANGED <<client_type, stream_name, max_chunk_size, hs_fed, buffer,
                   msg, outbound, reads, io_guard>>

\* handshake(): one handshaker.handshake() step and the test for Finish.
\* The negotiator fails, stays in progress, or finishes once it has peer bytes.
handshake_step ==
    /\ pc = "hs_step"
    /\ Acquire
    /\ \/ /\ Raise("HandshakeError")
          /\ UNCHANGED <<state, handshaker, script>>
       \/ /\ handshaker' = "InProgress"
          /\ pc' = "hs_read"
          /\ UNCHANGED <<state, ret, script>>
       \/ /\ hs_fed
          /\ handshaker' = "Finish"
          /\ state' = "Connect"
          /\ pc' = "read"
          /\ script' = "handshaken"
          /\ UNCHANGED ret
    /\ UNCHANGED <<client_type, stream_name, max_chunk_size, hs_fed, buffer,
                   msg, outbound, reads, io_guard>>

\* handshake(): read the connection and feed the handshaker
handshake_read ==
    /\ pc = "hs_read"
    /\ Acquire
    /\ io_guard' = guard_after_read
    /\ \/ /\ Raise("IoError")
          /\ UNCHANGED <<hs_fed, reads>>
       \/ /\ reads < MaxReads
          /\ reads' = reads + 1
          /\ hs_fed' = TRUE
          /\ pc' = "hs_step"
          /\ UNCHANGED ret
    /\ UNCHANGED <<state, client_type, stream_name, max_chunk_size, handshaker,
                   buffer, msg, outbound,
                   script>>

\* run(), state Connect
run_Connect ==
    /\ pc = "run" /\ state = "Connect"
    /\ Write(send_connect(AsF64(TRANSACTION_ID_CONNECT)), "read")
    /\ UNCHANGED <<state, client_type, stream_name, max_chunk_size, handshaker,
                   hs_fed, buffer, reads, script>>
    /\ msg' = NoMsg

\* run(), state CreateStream
run_CreateStream ==
    /\ pc = "run" /\ state = "CreateStream"
    /\ Write(send_create_stream(AsF64(TRANSACTION_ID_CREATE_STREAM)), "read")
    /\ UNCHANGED <<state, client_type, stream_name, max_chunk_size, handshaker,
                   hs_fed, buffer, reads, script>>
    /\ msg' = NoMsg

\* run(), state Play
run_Play ==
    /\ pc = "run" /\ state = "Play"
    /\ Write(send_play(0, stream_name), "read")
    /\ UNCHANGED <<state, client_type, stream_name, max_chunk_size, handshaker,
                   hs_fed, buffer, reads, script>>
    /\ msg' = NoMsg

\* run(), state PublishingContent
run_PublishingContent ==
    /\ pc = "run" /\ state = "PublishingContent"
    /\ Write(send_publish(0, stream_name, "live"), "read")
    /\ UNCHANGED <<state, client_type, stream_name, max_chunk_size, handshaker,
                   hs_fed, buffer, reads, script>>
    /\ msg' = NoMsg

\* run(): read the connection and extend the unpacketizer's data.  The bytes
\* read complete 0..MaxPerRead further messages; they stay opaque to the
\* session until read_chunk and MessageParser::parse take them apart.
run_read ==
    /\ pc = "read"
    /\ Acquire
    /\ io_guard' = guard_after_read
    /\ \/ /\ Raise("IoError")
          /\ UNCHANGED <<buffer, reads>>
       \/ /\ reads < MaxReads
          /\ reads' = reads + 1
          /\ \E k \in 0..MaxPerRead : buffer' = buffer + k
          /\ pc' = "read_chunk"
          /\ UNCHANGED ret
    /\ UNCHANGED <<state, client_type, stream_name, max_chunk_size, handshaker,
                   hs_fed, msg, outbound,
                   script>>

\* run(): unpacketizer.read_chunk() once, and MessageParser::parse on a
\* ChunkInfo result
run_read_chunk ==
    /\ pc = "read_chunk"
    /\ IF buffer = 0 THEN
            /\ pc' = "run"
            /\ UNCHANGED <<buffer, msg, ret>>
       ELSE \E m \in Inbound :
            IF m.kind = "BadChunk" THEN
                /\ Raise("UnpackError")
                /\ UNCHANGED <<buffer, msg>>
            ELSE IF m.kind = "BadMessage" THEN
                /\ Raise("MessageError")
                /\ buffer' = buffer - 1
                /\ UNCHANGED msg
            ELSE
                /\ msg' = m
                /\ buffer' = buffer - 1
                /\ pc' = "dispatch"
                /\ UNCHANGED ret
    /\ UNCHANGED <<state, client_type, stream_name, max_chunk_size, handshaker,
                   hs_fed, outbound, reads, io_guard,
                   script>>

\* mutant: every message that is neither a command nor SetChunkSize takes the
\* SetPeerBandwidth arm
process_messages_ack_all ==
    /\ pc = "dispatch"
    /\ IF msg.kind = "Amf0Command" THEN
            LET r == process_amf0_command_message(msg, state, client_type) IN
            /\ state' = r.state
            /\ IF r.ret = "Ok"
                  THEN pc' = "run" /\ UNCHANGED ret
                  ELSE Raise(r.ret)
            /\ UNCHANGED <<max_chunk_size, outbound, io_guard>>
       ELSE IF msg.kind = "SetChunkSize" THEN
            /\ max_chunk_size' = on_set_chunk_size(msg.n)
            /\ pc' = "run"
            /\ UNCHANGED <<state, ret, outbound, io_guard>>
       ELSE /\ Write(on_set_peer_bandwidth(msg.n), "run")
            /\ UNCHANGED <<state, max_chunk_size>>
    /\ script' = ScriptStep(script, msg)
    /\ UNCHANGED <<client_type, stream_name, handshaker, hs_fed, buffer, msg,
                   reads>>

\* run(): process_messages(msg) and the `?` on its result
process_messages ==
    /\ pc = "dispatch"
    /\ IF msg.kind = "Amf0Command" THEN
            LET r == process_amf0_command_message(msg, state, client_type) IN
            /\ state' = r.state
            /\ IF r.ret = "Ok"
                  THEN pc' = "run" /\ UNCHANGED ret
                  ELSE Raise(r.ret)
            /\ UNCHANGED <<max_chunk_size, outbound, io_guard>>
       ELSE IF msg.kind = "SetPeerBandwidth" THEN
            /\ Write(on_set_peer_bandwidth(msg.n), "run")
            /\ UNCHANGED <<state, max_chunk_size>>
       ELSE IF msg.kind = "SetChunkSize" THEN
            /\ max_chunk_size' = on_set_chunk_size(msg.n)
            /\ pc' = "run"
            /\ UNCHANGED <<state, ret, outbound, io_guard>>
       ELSE /\ pc' = "run"
            /\ UNCHANGED <<state, max_chunk_size, ret, outbound, io_guard>>
    /\ script' = ScriptStep(script, msg)
    /\ UNCHANGED <<client_type, stream_name, handshaker, hs_fed, buffer, msg,
                   reads>>

Next ==
    \/ run_Handshake
    \/ handshake_step
    \/ handshake_read
    \/ run_Connect
    \/ run_CreateStream
    \/ run_Play
    \/ run_PublishingContent
    \/ run_read
    \/ run_read_chunk
    \/ process_messages

Spec == Init /\ [][Next]_vars

TypeOK ==
    /\ state \in States
    /\ client_type \in ClientTypes
    /\ stream_name \in StreamNames
    /\ pc \in {"run", "hs_step", "hs_read", "read", "read_chunk", "dispatch", "done"}
    /\ msg \in Inbound \cup {NoMsg}
    /\ buffer \in Nat /\ reads \in 0..MaxReads

\* ================================================================== claims
Last(q) == q[Len(q)]

Kinds(q) == {q[i].kind : i \in DOMAIN q}

\* the requests written so far, control replies left out
Requests ==
    SelectSeq(outbound,
              LAMBDA f : f.kind \in {"connect", "createStream", "play", "publish"})

ConnectId == AsF64(TRANSACTION_ID_CONNECT)
CreateStreamId == AsF64(TRANSACTION_ID_CREATE_STREAM)

Dispatching(m) == pc = "dispatch" /\ msg = m

\* msg has been dispatched and process_messages returned Ok
Dispatched(m) == pc = "run" /\ msg = m /\ ret = "Running"

PhaseStep(a, b) ==
    \/ a = b
    \/ <<a, b>> \in { <<"Handshake", "Connect">>, <<"Connect", "CreateStream">>,
                      <<"CreateStream", "Play">>,
                      <<"CreateStream", "PublishingContent">> }

\* C1: over every sequence of inbound messages the session state changes only
\* along Handshake -> Connect -> CreateStream -> {Play | PublishingContent}:
\* no step skips a phase and none regresses.
C1_PhaseMonotonic == [][PhaseStep(state, state')]_vars

\* C2: a Publish session whose peer completes the handshake, then replies
\* "_result" with the connect id, then "_result" with the create-stream id,
\* has reached PublishingContent once the last reply is dispatched, and the
\* frame it writes next is publish(stream_name, "live").
C2_PublishScenario ==
    (client_type = "Publish" /\ script = "create_stream_replied")
        => /\ state = "PublishingContent"
           /\ pc = "read" => Last(outbound) = send_publish(0, stream_name, "live")

\* C3: a "_result" reply carrying the create-stream id, dispatched while the
\* session is in Connect, leaves the state Connect.
C3_CreateStreamReplyInConnect ==
    [][ (pc = "dispatch" /\ state = "Connect"
            /\ IsCommand(msg, "_result", CreateStreamId))
        => state' = "Connect" ]_vars

C3_Witness ==
    /\ Dispatched(Amf0Command(Amf0String("_result"), Amf0Number(CreateStreamId),
                              Amf0Null, <<>>))
    /\ state = "Connect"
    /\ "connect" \in Kinds(outbound)

\* C4: a "_result" reply carrying the connect id, dispatched in Connect, moves
\* the session to CreateStream, and the session leaves Connect by no other
\* step.
C4_ConnectReplyAdvances ==
    [][ /\ (pc = "dispatch" /\ state = "Connect"
                /\ IsCommand(msg, "_result", ConnectId))
            => state' = "CreateStream"
        /\ (state = "Connect" /\ state' # "Connect")
            => (pc = "dispatch" /\ IsCommand(msg, "_result", ConnectId)) ]_vars

\* C5: dispatching an "onStatus" command with no trailing argument returns
\* the argument-shape error (Amf0ValueCountNotCorrect), not a panic and not
\* Ok, and leaves the session state unchanged.
C5_OnStatusEmpty ==
    [][ (pc = "dispatch" /\ msg.kind = "Amf0Command"
            /\ cmd_name(msg) = "onStatus" /\ msg.others = <<>>)
        => (ret' = "Amf0ValueCountNotCorrect" /\ state' = state) ]_vars

\* C6: dispatching a "_result" reply whose transaction id is neither the
\* connect nor the create-stream id returns Ok and leaves the session state
\* and the max chunk size unchanged, in every state.
C6_UnknownIdNoOp ==
    [][ (pc = "dispatch" /\ msg.kind = "Amf0Command"
            /\ msg.command_name = Amf0String("_result")
            /\ msg.transaction_id.t = "Number"
            /\ msg.transaction_id.n \notin {ConnectId, CreateStreamId})
        => /\ pc' = "run" /\ ret' = "Running"
           /\ state' = state
           /\ max_chunk_size' = max_chunk_size ]_vars

C6_Witness ==
    /\ Dispatched(Amf0Command(Amf0String("_result"), Amf0Number(14),
                              Amf0Null, <<>>))
    /\ state = "PublishingContent"
    /\ max_chunk_size = 4096

\* C7: each dispatched SetPeerBandwidth, whatever its window size and the
\* session state, hands the connection exactly one WindowAcknowledgementSize
\* frame carrying the fixed constant, and changes no state.
C7_BandwidthAck ==
    [][ (pc = "dispatch" /\ msg.kind = "SetPeerBandwidth")
        => /\ outbound' = Append(outbound,
                    Frame("WindowAcknowledgementSize", WINDOW_ACK_SIZE, "", ""))
           /\ state' = state
           /\ max_chunk_size' = max_chunk_size ]_vars

C7_Witness ==
    /\ Dispatched(Control("SetPeerBandwidth", 2500000))
    /\ state = "CreateStream"
    /\ Last(outbound) = Frame("WindowAcknowledgementSize", WINDOW_ACK_SIZE, "", "")
    /\ Len(SelectSeq(outbound,
                     LAMBDA f : f.kind = "WindowAcknowledgementSize")) = 1

\* C8: dispatching SetChunkSize(n) sets the reassembler's max chunk size to n
\* in the dispatch step itself, which returns to the top of the loop before
\* any further read or read_chunk, and changes nothing else.
C8_SetChunkSize ==
    [][ (pc = "dispatch" /\ msg.kind = "SetChunkSize")
        => /\ max_chunk_size' = msg.n
           /\ pc' = "run" /\ ret' = ret
           /\ UNCHANGED <<state, client_type, stream_name, outbound, buffer,
                          reads>> ]_vars

C8_Witness ==
    /\ Dispatched(Control("SetChunkSize", 4096))
    /\ max_chunk_size = 4096
    /\ buffer > 0

\* C9: a Play session never reaches PublishingContent and never writes
\* publish, a Publish session never reaches Play and never writes play, and
\* the role never changes.
C9_RoleBranching ==
    /\ [](client_type = "Play"
            => state # "PublishingContent" /\ "publish" \notin Kinds(outbound))
    /\ [](client_type = "Publish"
            => state # "Play" /\ "play" \notin Kinds(outbound))
    /\ [][client_type' = client_type]_vars

C9_Witness ==
    /\ client_type = "Play"
    /\ state = "Play"
    /\ outbound # <<>>
    /\ Last(outbound) = send_play(0, stream_name)

\* C10: at most one connect and one create-stream request is outstanding: the
\* run loop does not write the same request twice in a row.
C10_OneOutstanding ==
    \A i \in 1..(Len(Requests) - 1) :
        Requests[i].kind \in {"connect", "createStream"}
            => Requests[i + 1].kind # Requests[i].kind

Errors == {"IoError", "HandshakeError", "UnpackError", "MessageError",
           "Amf0ValueCountNotCorrect"}

\* C11: an error of a read, a write, the reassembler, the decoder or the
\* dispatcher ends run() in the step that raises it, with the session state
\* of that moment; after it nothing is written, nothing is read and the
\* state stays.
C11_FatalErrorPropagation ==
    /\ [](ret \in Errors => pc = "done")
    /\ [][ /\ (ret = "Running" /\ ret' \in Errors)
                => (pc' = "done" /\ state' = state /\ reads' = reads)
           /\ ret \in Errors
                => UNCHANGED <<ret, state, outbound, reads, buffer>> ]_vars

C11_Witness ==
    /\ ret = "MessageError"
    /\ pc = "done"
    /\ state = "CreateStream"
    /\ Last(outbound) = send_create_stream(CreateStreamId)

\* the command names the dispatcher has an arm for
MatchedNames == {"_reslut", "_error", "onStatus"}

\* C12: dispatching a command whose name the dispatcher has no arm for (a
\* name that is not a string included, whatever the transaction id and the
\* command object are) returns Ok, leaves state and max chunk size unchanged
\* and writes nothing.
C12_UnexpectedCommand ==
    [][ (pc = "dispatch" /\ msg.kind = "Amf0Command"
            /\ (msg.command_name.t # "UTF8String"
                    \/ msg.command_name.s \notin MatchedNames))
        => /\ pc' = "run" /\ ret' = "Running"
           /\ UNCHANGED <<state, max_chunk_size, outbound>> ]_vars

C12_Witness ==
    /\ Dispatched(Amf0Command(Amf0Null, Amf0String("x"), Amf0Number(4),
                              <<Amf0Object>>))
    /\ state = "CreateStream"

\* C13: a numeric transaction id that is not exactly the connect or the
\* create-stream id (1.5 and 257.0 included) causes no state transition, and
\* no error in a command that is not "onStatus".
C13_IdComparison ==
    [][ (pc = "dispatch" /\ msg.kind = "Amf0Command"
            /\ msg.transaction_id.t = "Number"
            /\ msg.transaction_id.n \notin {ConnectId, CreateStreamId})
        => /\ state' = state
           /\ cmd_name(msg) # "onStatus" => ret' = "Running" ]_vars

\* C14: while the negotiator has not finished the state is Handshake, no
\* frame has been written and nothing has reached the reassembler; every
\* read of that time feeds the negotiator; the state becomes Connect exactly
\* in the step in which the negotiator finishes; a handshake error leaves
\* the state Handshake.
C14_HandshakeGating ==
    /\ [](/\ (handshaker # "Finish")
                => (state = "Handshake" /\ outbound = <<>> /\ buffer = 0
                        /\ msg = NoMsg)
          /\ (handshaker = "Finish") => state # "Handshake"
          /\ ret = "HandshakeError" => state = "Handshake")
    /\ [][ /\ (state = "Handshake" /\ state' # "Handshake")
                => (state' = "Connect" /\ handshaker' = "Finish")
           /\ (handshaker # "Finish" /\ reads' # reads)
                => (hs_fed' /\ buffer' = buffer) ]_vars

C14_Witness ==
    /\ handshaker = "Finish"
    /\ state = "Connect"
    /\ pc = "read"
    /\ reads = 2
    /\ outbound = <<>>

\* C15: a command named "_error", whatever its transaction id and the
\* session state, changes no state, writes nothing and lets run() go on.
C15_ErrorCommand ==
    [][ (pc = "dispatch" /\ msg.kind = "Amf0Command"
            /\ msg.command_name = Amf0String("_error"))
        => /\ pc' = "run" /\ ret' = "Running"
           /\ UNCHANGED <<state, max_chunk_size, outbound>> ]_vars

C15_Witness ==
    /\ Dispatched(Amf0Command(Amf0String("_error"), Amf0Number(14),
                              Amf0Null, <<>>))
    /\ state = "Play"

\* C16: dispatching AudioData, VideoData or any message that is neither a
\* command nor SetPeerBandwidth nor SetChunkSize returns Ok, leaves state,
\* role, stream name and max chunk size unchanged and writes nothing.
C16_MediaInert ==
    [][ (pc = "dispatch"
            /\ msg.kind \notin {"Amf0Command", "SetPeerBandwidth", "SetChunkSize"})
        => /\ pc' = "run" /\ ret' = "Running"
           /\ UNCHANGED <<state, client_type, stream_name, max_chunk_size,
                          outbound>> ]_vars

C16_Witness ==
    /\ Dispatched(Control("VideoData", 0))
    /\ state = "PublishingContent"

\* C17: when run() waits on a connection read after the handshake has
\* finished, the connect request has been written.
C17_ConnectBeforeRead ==
    (pc = "read" /\ handshaker = "Finish") => "connect" \in Kinds(outbound)

\* C18: a create-stream request is written only after a connect request, and
\* a play or publish command only after a create-stream request.
C18_RequestOrder ==
    \A i \in DOMAIN outbound :
        /\ outbound[i].kind = "createStream"
            => \E j \in 1..(i - 1) : outbound[j].kind = "connect"
        /\ outbound[i].kind \in {"play", "publish"}
            => \E j \in 1..(i - 1) : outbound[j].kind = "createStream"

\* C19: when run() waits on the next connection read, no complete message is
\* left in the reassembler.
C19_NothingStranded == pc = "read" => buffer = 0

\* where the session, or a writer it calls, locks the connection mutex next
AcquirePoints == {"run", "hs_step", "hs_read", "read", "dispatch"}

\* C20: the session holds no guard of the connection mutex when it decodes
\* or dispatches, and none where it locks the mutex next: every read, every
\* send_* write and the WindowAcknowledgementSize write can take the lock.
C20_NoSelfDeadlock ==
    (ret = "Running" /\ pc \in AcquirePoints \cup {"read_chunk"}) => Acquire

C20_Witness ==
    /\ Dispatched(Control("SetPeerBandwidth", 0))
    /\ Last(outbound).kind = "WindowAcknowledgementSize"
    /\ "connect" \in Kinds(outbound)
    /\ reads >= 3
    /\ io_guard = "none"

====
